---------------------------- MODULE Spec2Model ----------------------------
(***************************************************************************)
(* Model of mender-flash: the optimized block-copy engine                  *)
(* (OptimizedWriter::Copy, src/libflash/optimized_writer.cpp) running on   *)
(* top of the stream wrappers of src/libflash/fileio.cpp and the raw       *)
(* primitives of src/libflash/platformfs.cpp.                              *)
(*                                                                         *)
(* Files are sequences of bytes; a file handle is the file plus its        *)
(* current offset.  One Copy invocation is a small program whose control   *)
(* point is pc; each action is one statement group of the loop body.       *)
(***************************************************************************)
EXTENDS Integers, Sequences, FiniteSets, TLC

(***************************************************************************)
(* Bounds of the model.                                                    *)
(***************************************************************************)
MaxByte == 1        \* bytes are 0..MaxByte
MaxSrcLen == 4      \* longest source stream
MaxDstLen == 2      \* longest initial destination content
MaxBlockSize == 3   \* largest block size
MaxVolumeSize == 4  \* largest configured volume size
MaxRuns == 2        \* Copy invocations on one engine
MaxFaults == 1      \* failing primitive calls in one execution
MaxWrites == 2      \* Write calls on one LimitedFlushingWriter
MaxOpens == 3       \* files opened in one execution
MaxPaths == 2       \* paths of the file system handed to IsUBIDevice
MaxCalls == 2       \* buf_io calls in one execution

Byte == 0..MaxByte

Min(a, b) == IF a < b THEN a ELSE b
Max(a, b) == IF a > b THEN a ELSE b

SeqsOfLen(n) == [1..n -> Byte]
SeqsUpTo(n) == UNION {SeqsOfLen(k) : k \in 0..n}

\* ceil(l / b) for b >= 1
CeilDiv(l, b) == (l + b - 1) \div b

VARIABLES
    src,                \* content of the source file
    srcPos,             \* offset of the source handle (reader_)
    dst,                \* content of the destination file
    dstPos,             \* offset of the destination handle (readWriter_)
    blockSize_,         \* OptimizedWriter::blockSize_
    volumeSize_,        \* OptimizedWriter::volumeSize_
    statistics_,        \* OptimizedWriter::statistics_
    pc,                 \* control point of Copy
    optimized,          \* argument of the running invocation
    rv,                 \* read buffer (source block)
    wv,                 \* compare buffer (destination block)
    volumeSizeReached,  \* local of Copy
    position,           \* local of Copy
    readBytes,          \* local of Copy
    skipWriting,        \* local of Copy
    result,             \* value returned by the last invocation
    run,                \* number of invocations started
    prevResult,         \* history: result of the previous invocation
    prevOptimized,      \* history: argument of the previous invocation
    entrySrcPos,        \* history: source offset at entry of the invocation
    entryDst,           \* history: destination content at entry
    consumed,           \* history: bytes read from the source this invocation
    cmpRead,            \* history: bytes the compare read returned this block
    cmpDone,            \* history: a compare read was issued this block
    wroteBlock,         \* history: a write was issued this block
    maxWriteEnd,        \* history: largest end offset written this invocation
    faults,             \* history: number of primitive calls that failed
    hardFault,          \* history: a source read, seek or write failed
    ioAfterFault,       \* history: destination calls issued after hardFault
    writeAt,            \* history: destination offset of the last write
    writeRes,           \* history: count the last write returned, -1 = error
    cmpAt,              \* history: destination offset of this block's compare read
    prevIoAt,           \* history: largest offset of a compare read or write of an earlier block
    entryDstPos,        \* history: destination offset at entry of the invocation
    bytesOut,           \* history: bytes the destination accepted this invocation
    omittedBytes,       \* history: sum of the sizes of the omitted blocks
    iterations,         \* history: completed iterations of the loop
    wroteOffsets,       \* history: offsets in the ranges of the blocks written
    fdTable,            \* descriptor -> open file it refers to, 0 = not open
    opens,              \* files opened so far; an open file is named by its rank
    objs,               \* the stream objects: state, fd_ and the file fd_ was opened as
    closeLog,           \* history: the close calls issued by destructors
    nodes,              \* path -> what stat reports for it
    ubiCalls,           \* history: number of IsUBIDevice calls
    ubiPath,            \* history: argument of the last IsUBIDevice call
    ubiRes,             \* what the last IsUBIDevice call returned
    mWritingLimit,      \* LimitedFlushingWriter::mWritingLimit
    mFlushIntervalBytes,     \* LimitedFlushingWriter::mFlushIntervalBytes
    mUnflushedBytesWritten,  \* LimitedFlushingWriter::mUnflushedBytesWritten
    wCalls,             \* history: number of LimitedFlushingWriter::Write calls
    wRes,               \* history: what the last Write call returned
    wData,              \* history: the data handed to the last Write call
    wFlush,             \* history: the flush of the last call: none, ok, failed
    wFlushes,           \* history: number of flushes issued
    wTotal,             \* history: bytes written by the calls so far
    wAllOk,             \* history: every Write call so far returned success
    wSinceFlush,        \* history: bytes written since the last successful flush
    bioPc,              \* control point of buf_io (main.c)
    bioKind,            \* io_fn of the call: read or write
    bioLen,             \* argument len of buf_io
    bioBuf,             \* the buffer buf
    rem,                \* local of buf_io
    n_done,             \* local of buf_io
    bioRet,             \* what buf_io returned
    bioEintr,           \* history: io_fn calls of this call that failed with EINTR
    bioError,           \* history: an io_fn call failed with another error
    bioCalls,           \* history: number of buf_io calls
    shPc,               \* control point of shovel_data (main.c)
    shLen,              \* argument len of shovel_data, the bytes still to copy
    write_optimized,    \* argument of shovel_data
    fsync_interval,     \* argument of shovel_data
    n_unsynced,         \* local of shovel_data
    shStats,            \* *stats
    shRet,              \* what shovel_data returned
    shDirty,            \* history: bytes written to the target and not followed by a successful fsync
    shFsyncs,           \* history: fsync calls issued
    shFsyncFailed,      \* history: an fsync call failed
    rdPc,               \* control point of mender::io::Read
    dataLen,            \* argument of mender::io::Read
    bytesRead,          \* local of mender::io::Read
    rdBuf,              \* bytes stored at dataPtr so far
    rdRes,              \* what mender::io::Read returned, -1 = error
    rdStart,            \* history: file offset when Read was called
    rdEof,              \* history: an underlying read returned 0
    rdEintr,            \* history: interrupted underlying reads in this call
    rdParts             \* history: underlying reads that returned a count

vars == <<src, srcPos, dst, dstPos, blockSize_, volumeSize_, statistics_, pc,
          optimized, rv, wv, volumeSizeReached, position, readBytes,
          skipWriting, result, run, prevResult, prevOptimized, entrySrcPos,
          entryDst, consumed, cmpRead, cmpDone, wroteBlock, maxWriteEnd,
          faults, hardFault, ioAfterFault, writeAt, writeRes, mWritingLimit,
          mFlushIntervalBytes, mUnflushedBytesWritten, wCalls, wRes, wData,
          wFlush, wFlushes, wTotal, wAllOk, rdPc, dataLen, bytesRead, rdBuf,
          rdRes, rdStart, rdEof, rdEintr, rdParts, cmpAt, prevIoAt,
          entryDstPos, bytesOut, omittedBytes, iterations, wroteOffsets,
          fdTable, opens, objs, closeLog, nodes, ubiCalls, ubiPath, ubiRes,
          wSinceFlush, bioPc, bioKind, bioLen, bioBuf, rem, n_done, bioRet,
          bioEintr, bioError, bioCalls, shPc, shLen, write_optimized,
          fsync_interval, n_unsynced, shStats, shRet, shDirty, shFsyncs,
          shFsyncFailed>>

config == <<src, blockSize_, volumeSize_>>
history == <<consumed, cmpRead, cmpDone, wroteBlock, maxWriteEnd>>
faultHistory == <<faults, hardFault, ioAfterFault, writeAt, writeRes>>
ledger == <<cmpAt, prevIoAt, entryDstPos, bytesOut, omittedBytes, iterations,
            wroteOffsets>>
writerVars == <<mWritingLimit, mFlushIntervalBytes, mUnflushedBytesWritten,
                wCalls, wRes, wData, wFlush, wFlushes, wTotal, wAllOk,
                wSinceFlush>>
readerVars == <<rdPc, dataLen, bytesRead, rdBuf, rdRes, rdStart, rdEof,
                rdEintr, rdParts>>
handleVars == <<fdTable, opens, objs, closeLog>>
ubiVars == <<nodes, ubiCalls, ubiPath, ubiRes>>
bufIoVars == <<bioPc, bioKind, bioLen, bioBuf, rem, n_done, bioRet, bioEintr,
               bioError, bioCalls>>
shovelVars == <<shPc, shLen, write_optimized, fsync_interval, n_unsynced,
                shStats, shRet, shDirty, shFsyncs, shFsyncFailed>>
platform == <<handleVars, ubiVars, bufIoVars, shovelVars>>
aside == <<writerVars, readerVars, platform>>
engineCore == <<blockSize_, volumeSize_, statistics_, pc, optimized, rv, wv,
                volumeSizeReached, position, readBytes, skipWriting, result,
                run, prevResult, prevOptimized, entrySrcPos, entryDst,
                history, hardFault, ioAfterFault, writeAt, ledger>>
ioCore == <<src, srcPos, dst, dstPos, faults, writeRes, engineCore>>

(***************************************************************************)
(* Raw primitives on a regular file, all calls succeeding.                 *)
(***************************************************************************)
\* mender::io::Read: the bytes obtained by reading n bytes at offset pos;
\* fewer than n only when the end of the file is reached.
FileRead(f, pos, n) == SubSeq(f, pos + 1, Min(pos + n, Len(f)))

\* mender::io::Write on a regular file: data replaces the bytes at offset
\* pos, the file grows when the write ends past its end.
FileWrite(f, pos, data) ==
    [i \in 1..Max(Len(f), pos + Len(data)) |->
        IF i > pos /\ i <= pos + Len(data) THEN data[i - pos]
        ELSE IF i <= Len(f) THEN f[i]
        ELSE 0]

\* a buffer after n bytes were stored at its start
Fill(buf, data) == data \o SubSeq(buf, Len(data) + 1, Len(buf))

ZeroBytes(n) == [i \in 1..n |-> 0]

ZeroStatistics ==
    [blocksWritten_ |-> 0, blocksOmitted_ |-> 0, bytesWritten_ |-> 0,
     bytesTotal_ |-> 0]

(***************************************************************************)
(* Initial state: an engine constructed over a source and a destination.   *)
(***************************************************************************)
NoResult == [err |-> "none", n |-> 0]

\* the engine before its first invocation
EngineAtRest ==
    /\ srcPos = 0
    /\ dstPos = 0
    /\ statistics_ = ZeroStatistics
    /\ pc = "idle"
    /\ optimized = FALSE
    /\ rv = <<>>
    /\ wv = <<>>
    /\ volumeSizeReached = FALSE
    /\ position = 0
    /\ readBytes = 0
    /\ skipWriting = FALSE
    /\ result = "none"
    /\ run = 0
    /\ prevResult = "none"
    /\ prevOptimized = FALSE
    /\ entrySrcPos = 0
    /\ entryDst = <<>>
    /\ consumed = <<>>
    /\ cmpRead = <<>>
    /\ cmpDone = FALSE
    /\ wroteBlock = FALSE
    /\ maxWriteEnd = 0
    /\ faults = 0
    /\ hardFault = FALSE
    /\ ioAfterFault = 0
    /\ writeAt = -1
    /\ writeRes = -2
    /\ cmpAt = -1
    /\ prevIoAt = -1
    /\ entryDstPos = 0
    /\ bytesOut = 0
    /\ omittedBytes = 0
    /\ iterations = 0
    /\ wroteOffsets = {}

\* lines 55-60 of fileio.cpp: a LimitedFlushingWriter just constructed
WriterAtRest(limit, interval) ==
    /\ mWritingLimit = limit
    /\ mFlushIntervalBytes = interval
    /\ mUnflushedBytesWritten = 0
    /\ wCalls = 0
    /\ wRes = NoResult
    /\ wData = <<>>
    /\ wFlush = "none"
    /\ wFlushes = 0
    /\ wTotal = 0
    /\ wAllOk = TRUE
    /\ wSinceFlush = 0

\* no mender::io::Read call in progress
ReaderAtRest ==
    /\ rdPc = "idle"
    /\ dataLen = 0
    /\ bytesRead = 0
    /\ rdBuf = <<>>
    /\ rdRes = 0
    /\ rdStart = 0
    /\ rdEof = FALSE
    /\ rdEintr = 0
    /\ rdParts = 0

\* the stream objects of one program: the source reader, the destination
\* writer (FileWriter or LimitedFlushingWriter) and the seeker wrapping it
Objects == {"reader", "writer", "seeker"}

\* platformfs.cpp line 29: the value GetInvalidFile returns
InvalidFileDescriptor == -1

NoObject == [state |-> "absent", fd |-> InvalidFileDescriptor, file |-> 0]

\* no file opened, no stream object constructed
HandlesAtRest ==
    /\ fdTable = [fd \in 1..MaxOpens |-> 0]
    /\ opens = 0
    /\ objs = [o \in Objects |-> NoObject]
    /\ closeLog = <<>>

\* platformfs.cpp line 30
UBIMajorDevNo == 10

\* what stat can report for a path: nothing there, a regular file, a
\* directory, or a character or block device node with its major number
DevMajors == {1, UBIMajorDevNo, 90}
NodeKinds ==
    {[kind |-> k, major |-> 0] : k \in {"none", "reg", "dir"}}
        \cup {[kind |-> k, major |-> m] : k \in {"chr", "blk"}, m \in DevMajors}

NoAnswer == [err |-> "none", value |-> FALSE]

\* IsUBIDevice not called yet on a file system of one regular file
UbiAtRest ==
    /\ nodes = [p \in 1..MaxPaths |-> [kind |-> "reg", major |-> 0]]
    /\ ubiCalls = 0
    /\ ubiPath = 0
    /\ ubiRes = NoAnswer

\* no buf_io call in progress
BufIoAtRest ==
    /\ bioPc = "idle"
    /\ bioKind = "read"
    /\ bioLen = 0
    /\ bioBuf = <<>>
    /\ rem = 0
    /\ n_done = 0
    /\ bioRet = 0
    /\ bioEintr = 0
    /\ bioError = FALSE
    /\ bioCalls = 0

\* main.c line 287: struct Stats stats = {0}
ZeroStats ==
    [blocks_written |-> 0, blocks_omitted |-> 0, bytes_written |-> 0,
     total_bytes |-> 0]

\* shovel_data entered with the arguments l, opt and interval (lines 84-87)
ShovelEntered(l, opt, interval) ==
    /\ shPc = "loop"
    /\ shLen = l
    /\ write_optimized = opt
    /\ fsync_interval = interval
    /\ n_unsynced = 0
    /\ shStats = ZeroStats
    /\ shRet = FALSE
    /\ shDirty = 0
    /\ shFsyncs = 0
    /\ shFsyncFailed = FALSE

\* shovel_data not called
ShovelAtRest ==
    /\ shPc = "idle"
    /\ shLen = 0
    /\ write_optimized = FALSE
    /\ fsync_interval = 0
    /\ n_unsynced = 0
    /\ shStats = ZeroStats
    /\ shRet = FALSE
    /\ shDirty = 0
    /\ shFsyncs = 0
    /\ shFsyncFailed = FALSE

Init ==
    /\ src \in SeqsUpTo(MaxSrcLen)
    /\ dst \in SeqsUpTo(MaxDstLen)
    /\ blockSize_ \in 1..MaxBlockSize
    /\ volumeSize_ \in 0..MaxVolumeSize
    /\ EngineAtRest
    /\ WriterAtRest(0, 1)
    /\ ReaderAtRest
    /\ HandlesAtRest
    /\ UbiAtRest
    /\ BufIoAtRest
    /\ ShovelAtRest


(***************************************************************************)
(* OptimizedWriter::Copy, statement by statement.                          *)
(***************************************************************************)
\* faulty variant: the position alone is compared with the volume size
VolumeSizeReached_PositionOnly(pos) ==
    volumeSize_ # 0 /\ pos > volumeSize_

\* faulty variant: a block ending exactly at the volume size is refused
VolumeSizeReached_Inclusive(pos) ==
    volumeSize_ # 0 /\ (pos + blockSize_) >= volumeSize_

\* faulty variant: the volume size is never taken for reached
VolumeSizeReached_Never(pos) == FALSE

\* line 41: the next full block would cross the configured volume size
VolumeSizeReached(pos) ==
    volumeSize_ # 0 /\ (pos + blockSize_) > volumeSize_

\* faulty variant: data read after the volume size was reached is accepted
ReadVerdict_NoTooBig(n, reached) ==
    IF n = 0
    THEN IF volumeSize_ # 0 /\ ~reached THEN "TooShort" ELSE "NoError"
    ELSE IF n > Len(rv) THEN "ProgrammingError"
    ELSE "continue"

\* faulty variant: volume size 0 is taken for a limit like any other
ReadVerdict_ZeroIsLimit(n, reached) ==
    IF n = 0
    THEN IF ~reached THEN "TooShort" ELSE "NoError"
    ELSE IF n > Len(rv) THEN "ProgrammingError"
    ELSE IF reached THEN "TooBig"
    ELSE "continue"

\* lines 46-63: what Copy does with the count n the source read returned
ReadVerdict(n, reached) ==
    IF n = 0
    THEN IF volumeSize_ # 0 /\ ~reached THEN "TooShort" ELSE "NoError"
    ELSE IF n > Len(rv) THEN "ProgrammingError"
    ELSE IF reached THEN "TooBig"
    ELSE "continue"

\* faulty variant: the comparison looks at the lengths only
BlockEqual_SizeOnly(r, w) == Len(r) = Len(w)

\* line 80: std::equal(rv.begin(), rv.end(), wv.data()) compares the whole
\* read buffer with blockSize_ bytes starting at wv.data()
BlockEqual(r, w) == r = w

\* faulty variant: the count of the compare read is not checked
CompareUsable_AnyCount(n, want) == TRUE

\* faulty variant: a short compare read is usable too
CompareUsable_AtMost(n, want) == n <= want

\* line 78: the compare read is usable
CompareUsable(n, want) == n = want

\* faulty variant: the iteration stays at its seek
AfterSeek_StaysAtSeek(opt) == "seek"

\* faulty variant: the compare read is issued whatever the flag
AfterSeek_AlwaysCompare(opt) == "compare"

\* faulty variant: the flag is taken the wrong way round
AfterSeek_Inverted(opt) == IF opt THEN "write" ELSE "compare"

\* line 74: the compare read is issued in optimized mode only
AfterSeek(opt) == IF opt THEN "compare" ELSE "write"

\* faulty variant: the statistics of the earlier invocation are kept
StatisticsAtEntry_Kept(stats) == stats

\* lines 29-32: the four counters are set to zero
StatisticsAtEntry(stats) == ZeroStatistics

\* lines 28-38: reset the statistics, allocate the buffers
CopyBegin(opt) ==
    /\ pc \in {"idle", "returned"}
    /\ run < MaxRuns
    /\ statistics_' = StatisticsAtEntry(statistics_)
    /\ rv' = ZeroBytes(blockSize_)
    /\ wv' = ZeroBytes(blockSize_)
    /\ volumeSizeReached' = FALSE
    /\ position' = 0
    /\ optimized' = opt
    /\ readBytes' = 0
    /\ skipWriting' = FALSE
    /\ pc' = "read"
    /\ result' = "none"
    /\ run' = run + 1
    /\ prevResult' = result
    /\ prevOptimized' = optimized
    /\ entrySrcPos' = srcPos
    /\ entryDst' = dst
    /\ consumed' = <<>>
    /\ cmpRead' = <<>>
    /\ cmpDone' = FALSE
    /\ wroteBlock' = FALSE
    /\ maxWriteEnd' = 0
    /\ hardFault' = FALSE
    /\ ioAfterFault' = 0
    /\ writeAt' = -1
    /\ writeRes' = -2
    /\ cmpAt' = -1
    /\ prevIoAt' = -1
    /\ entryDstPos' = dstPos
    /\ bytesOut' = 0
    /\ omittedBytes' = 0
    /\ iterations' = 0
    /\ wroteOffsets' = {}
    /\ UNCHANGED aside
    /\ UNCHANGED <<config, srcPos, dst, dstPos, faults>>

\* destination calls issued after a failed call, n more of them now
AfterFault(n) == IF hardFault THEN ioAfterFault + n ELSE ioAfterFault

\* lines 41-65: capacity check, source read and the decisions on its count.
\* ok: the read succeeds; otherwise it fails after got bytes were stored.
CopyReadOutcome(ok, got) ==
    /\ pc = "read"
    /\ LET reached == volumeSizeReached \/ VolumeSizeReached(position)
           data == FileRead(src, srcPos, Len(rv))
           verdict == ReadVerdict(Len(data), reached)
       IN  /\ volumeSizeReached' = reached
           /\ IF ok
              THEN /\ srcPos' = srcPos + Len(data)
                   /\ rv' = Fill(rv, data)
                   /\ consumed' = consumed \o data
                   /\ UNCHANGED <<faults, hardFault>>
                   /\ IF verdict = "continue"
                      THEN /\ readBytes' = Len(data)
                           /\ pc' = "seek"
                           /\ result' = result
                      ELSE /\ readBytes' = readBytes
                           /\ pc' = "returned"
                           /\ result' = verdict
              ELSE /\ got \in 0..Len(data)
                   /\ srcPos' = srcPos + got
                   /\ rv' = Fill(rv, SubSeq(data, 1, got))
                   /\ consumed' = consumed
                   /\ faults' = faults + 1
                   /\ hardFault' = TRUE
                   /\ readBytes' = readBytes
                   /\ pc' = "returned"
                   /\ result' = "IOError"
    /\ cmpRead' = <<>>
    /\ cmpDone' = FALSE
    /\ wroteBlock' = FALSE
    /\ cmpAt' = -1
    /\ UNCHANGED <<prevIoAt, entryDstPos, bytesOut, omittedBytes, iterations,
                   wroteOffsets>>
    /\ UNCHANGED aside
    /\ UNCHANGED <<config, dst, dstPos, statistics_, optimized, wv, position,
                   skipWriting, run, prevResult, prevOptimized, entrySrcPos,
                   entryDst, maxWriteEnd, ioAfterFault, writeAt, writeRes>>

CopyRead == CopyReadOutcome(TRUE, 0)

\* lines 67-73: seek the destination to the logical position; a failing
\* seek leaves the offset where it was and ends the invocation
CopySeekOutcome(ok) ==
    /\ pc = "seek"
    /\ skipWriting' = FALSE
    /\ ioAfterFault' = AfterFault(1)
    /\ IF ok
       THEN /\ dstPos' = position
            /\ pc' = AfterSeek(optimized)
            /\ UNCHANGED <<result, faults, hardFault>>
       ELSE /\ dstPos' = dstPos
            /\ pc' = "returned"
            /\ result' = "SeekError"
            /\ faults' = faults + 1
            /\ hardFault' = TRUE
    /\ UNCHANGED aside
    /\ UNCHANGED <<config, srcPos, dst, statistics_, optimized, rv, wv,
                   volumeSizeReached, position, readBytes, run,
                   prevResult, prevOptimized, entrySrcPos, entryDst, history,
                   writeAt, writeRes, ledger>>

CopySeek == CopySeekOutcome(TRUE)

\* lines 74-85: read the destination block back and compare.  The read
\* stores its bytes at the start of wv; when the count is the requested one
\* wv is resized to it, and std::equal then reads blockSize_ bytes from
\* wv.data(): for a block shorter than blockSize_ the bytes past wv.size()
\* are read outside the vector, so their values (tail) are indeterminate.
\* ok: the read succeeds; otherwise it fails after got bytes were stored.
CopyCompareOutcome(ok, got) ==
    /\ pc = "compare"
    /\ ioAfterFault' = AfterFault(1)
    /\ LET data == FileRead(dst, dstPos, readBytes)
       IN  IF ok
           THEN /\ dstPos' = dstPos + Len(data)
                /\ cmpRead' = data
                /\ faults' = faults
                /\ IF CompareUsable(Len(data), readBytes)
                   THEN /\ wv' = data
                        /\ \E tail \in SeqsOfLen(Len(rv) - Len(data)) :
                             skipWriting' = BlockEqual(rv, data \o tail)
                   ELSE /\ wv' = Fill(wv, data)
                        /\ skipWriting' = FALSE
           ELSE /\ got \in 0..Len(data)
                /\ dstPos' = dstPos + got
                /\ cmpRead' = <<>>
                /\ faults' = faults + 1
                /\ wv' = Fill(wv, SubSeq(data, 1, got))
                /\ skipWriting' = FALSE
    /\ cmpDone' = TRUE
    /\ cmpAt' = dstPos
    /\ statistics_' =
         IF skipWriting'
         THEN [statistics_ EXCEPT !.blocksOmitted_ = @ + 1]
         ELSE statistics_
    /\ omittedBytes' =
         IF skipWriting' THEN omittedBytes + readBytes ELSE omittedBytes
    /\ UNCHANGED <<prevIoAt, entryDstPos, bytesOut, iterations, wroteOffsets>>
    /\ pc' = IF skipWriting' THEN "advance" ELSE "write"
    /\ UNCHANGED aside
    /\ UNCHANGED <<config, srcPos, dst, optimized, rv, volumeSizeReached,
                   position, readBytes, result, run, prevResult,
                   prevOptimized, entrySrcPos, entryDst, consumed, wroteBlock,
                   maxWriteEnd, hardFault, writeAt, writeRes>>

CopyCompare == CopyCompareOutcome(TRUE, 0)

\* faulty variant: a short write is taken for a complete one
WriteVerdict_ShortAccepted(k, want) ==
    IF k > 0 THEN "continue"
    ELSE IF k = 0 THEN "ZeroWrite"
    ELSE "IOError"

\* lines 90-101: what Copy does with the count k the write returned
\* (k = -1: the write failed)
WriteVerdict(k, want) ==
    IF k = want THEN "continue"
    ELSE IF k = 0 THEN "ZeroWrite"
    ELSE IF k > 0 THEN "ShortWrite"
    ELSE "IOError"

\* lines 87-102: re-seek, whose result is not looked at, and write the block.
\* seekOk: the re-seek succeeds; k: the count the write returns, -1 = error.
CopyWriteCore(seekOk, k) ==
    /\ pc = "write"
    /\ k \in -1..readBytes
    /\ LET data == SubSeq(rv, 1, readBytes)
           at == IF seekOk THEN position ELSE dstPos
           done == IF k > 0 THEN k ELSE 0
           verdict == WriteVerdict(k, readBytes)
       IN  /\ dst' = IF done > 0
                     THEN FileWrite(dst, at, SubSeq(data, 1, done))
                     ELSE dst
           /\ dstPos' = at + done
           /\ writeAt' = at
           /\ writeRes' = k
           /\ maxWriteEnd' = Max(maxWriteEnd, at + done)
           /\ IF verdict = "continue"
              THEN /\ statistics_' =
                        [statistics_ EXCEPT !.blocksWritten_ = @ + 1,
                                            !.bytesWritten_ = @ + k]
                   /\ pc' = "advance"
                   /\ result' = result
              ELSE /\ statistics_' = statistics_
                   /\ pc' = "returned"
                   /\ result' = verdict
    /\ faults' = faults + (IF seekOk THEN 0 ELSE 1)
                        + (IF k = readBytes THEN 0 ELSE 1)
    /\ hardFault' = (hardFault \/ ~seekOk \/ k # readBytes)
    /\ ioAfterFault' = IF hardFault THEN ioAfterFault + 2
                       ELSE IF ~seekOk THEN ioAfterFault + 1
                       ELSE ioAfterFault
    /\ wroteBlock' = TRUE
    /\ bytesOut' = bytesOut + (IF k > 0 THEN k ELSE 0)
    /\ wroteOffsets' =
         wroteOffsets \cup (position .. (position + readBytes - 1))
    /\ UNCHANGED <<cmpAt, prevIoAt, entryDstPos, omittedBytes, iterations>>
    /\ UNCHANGED <<config, srcPos, optimized, rv, wv, volumeSizeReached,
                   position, readBytes, skipWriting, run, prevResult,
                   prevOptimized, entrySrcPos, entryDst, consumed, cmpRead,
                   cmpDone>>

\* the same through a writer that keeps no state of its own (FileWriter)
CopyWriteOutcome(seekOk, k) ==
    /\ CopyWriteCore(seekOk, k)
    /\ UNCHANGED aside

CopyWrite == CopyWriteOutcome(TRUE, readBytes)

\* faulty variant: a whole block is counted for every iteration
BytesTotalAfter_WholeBlock(total, n) == total + blockSize_

\* faulty variant: bytesTotal is not advanced
BytesTotalAfter_Unchanged(total, n) == total

\* line 105: statistics_.bytesTotal_ += readBytes
BytesTotalAfter(total, n) == total + n

\* lines 104-105: advance the logical position
CopyAdvance ==
    /\ pc = "advance"
    /\ position' = position + readBytes
    /\ statistics_' =
         [statistics_ EXCEPT !.bytesTotal_ = BytesTotalAfter(@, readBytes)]
    /\ pc' = "read"
    /\ iterations' = iterations + 1
    /\ prevIoAt' =
         Max(prevIoAt, Max(cmpAt, IF wroteBlock THEN writeAt ELSE -1))
    /\ UNCHANGED <<cmpAt, entryDstPos, bytesOut, omittedBytes, wroteOffsets>>
    /\ UNCHANGED aside
    /\ UNCHANGED <<config, srcPos, dst, dstPos, optimized, rv, wv,
                   volumeSizeReached, readBytes, skipWriting, result, run,
                   prevResult, prevOptimized, entrySrcPos, entryDst, history,
                   faultHistory>>

(***************************************************************************)
(* The caller between two invocations: rewind both files.                  *)
(***************************************************************************)
Rewind ==
    /\ pc = "returned"
    /\ run < MaxRuns
    /\ srcPos # 0 \/ dstPos # 0
    /\ srcPos' = 0
    /\ dstPos' = 0
    /\ UNCHANGED aside
    /\ UNCHANGED <<config, dst, statistics_, pc, optimized, rv, wv,
                   volumeSizeReached, position, readBytes, skipWriting,
                   result, run, prevResult, prevOptimized, entrySrcPos,
                   entryDst, history, faultHistory, ledger>>

Next ==
    \/ \E opt \in BOOLEAN : CopyBegin(opt)
    \/ CopyRead
    \/ CopySeek
    \/ CopyCompare
    \/ CopyWrite
    \/ CopyAdvance
    \/ Rewind

Spec == Init /\ [][Next]_vars

(***************************************************************************)
(* The same program when primitive calls may fail.                         *)
(***************************************************************************)
CopyReadFails ==
    /\ faults < MaxFaults
    /\ \E got \in 0..blockSize_ : CopyReadOutcome(FALSE, got)

CopySeekFails ==
    /\ faults < MaxFaults
    /\ CopySeekOutcome(FALSE)

CopyCompareFails ==
    /\ faults < MaxFaults
    /\ \E got \in 0..blockSize_ : CopyCompareOutcome(FALSE, got)

CopyWriteFails ==
    \E seekOk \in BOOLEAN, k \in -1..blockSize_ :
        /\ ~(seekOk /\ k = readBytes)
        /\ faults + (IF seekOk THEN 0 ELSE 1)
                  + (IF k = readBytes THEN 0 ELSE 1) <= MaxFaults
        /\ CopyWriteOutcome(seekOk, k)

NextFault ==
    \/ Next
    \/ CopyReadFails
    \/ CopySeekFails
    \/ CopyCompareFails
    \/ CopyWriteFails

SpecFault == Init /\ [][NextFault]_vars

\* the steps of an invocation in progress (lines 40-108), failing or not
CopyStep ==
    \/ CopyRead
    \/ CopySeek
    \/ CopyCompare
    \/ CopyWrite
    \/ CopyAdvance
    \/ CopyReadFails
    \/ CopySeekFails
    \/ CopyCompareFails
    \/ CopyWriteFails

\* every primitive call returns: an invocation in progress takes its next
\* step.  Failures, interruptions among them, are finitely many (MaxFaults).
\* Copy looks at the source bytes only to compare them with the target's
\* (line 80): sources of every length with one byte value, targets of every
\* content, so that blocks match and differ.
InitLive ==
    /\ Init
    /\ \A i \in DOMAIN src : src[i] = 0

SpecLive == InitLive /\ [][NextFault]_vars /\ WF_vars(CopyStep)

(***************************************************************************)
(* LimitedFlushingWriter::Write (fileio.cpp, lines 62-87) on the handle    *)
(* whose file is dst and whose offset is dstPos.                           *)
(***************************************************************************)
\* faulty variant: the offset of the handle is left out of the check
LimitExceeded_LengthOnly(pos, len) ==
    mWritingLimit # 0 /\ len > mWritingLimit

\* faulty variant: a write ending exactly at the limit is refused
LimitExceeded_AtLimit(pos, len) ==
    mWritingLimit # 0 /\ pos + len >= mWritingLimit

\* line 69: the write would end past the limit
LimitExceeded(pos, len) ==
    mWritingLimit # 0 /\ pos + len > mWritingLimit

\* faulty variant: the flush waits until the interval is exceeded
FlushDue_Above(unflushed) == unflushed > mFlushIntervalBytes

\* line 77: a flush is due
FlushDue(unflushed) == unflushed >= mFlushIntervalBytes

\* faulty variant: the counter is reduced whatever the flush returned
UnflushedAfterFlush_Always(unflushed, ok) == unflushed - mFlushIntervalBytes

\* lines 79-83: the counter after the flush returned
UnflushedAfterFlush(unflushed, ok) ==
    IF ok THEN unflushed - mFlushIntervalBytes ELSE unflushed

WriteError(kind) == [err |-> kind, n |-> 0]
WriteCount(k) == [err |-> "none", n |-> k]

\* lines 62-87.  tellOk: Tell succeeds; k: the count the underlying write
\* returns, -1 = error; flushOk: the flush, when one is issued, succeeds.
LimitedWrite(data, tellOk, k, flushOk) ==
    /\ pc = "idle"
    /\ rdPc = "idle"
    /\ wCalls < MaxWrites
    /\ k \in -1..Len(data)
    /\ wCalls' = wCalls + 1
    /\ wData' = data
    /\ IF ~tellOk
       THEN /\ k = Len(data) /\ flushOk
            /\ faults < MaxFaults
            /\ faults' = faults + 1
            /\ wRes' = WriteError("TellError")
            /\ wFlush' = "none"
            /\ UNCHANGED <<dst, dstPos, writeRes, mUnflushedBytesWritten,
                           wFlushes, wTotal, wSinceFlush>>
       ELSE IF LimitExceeded(dstPos, Len(data))
       THEN /\ k = Len(data) /\ flushOk
            /\ wRes' = WriteError("LimitExceeded")
            /\ wFlush' = "none"
            /\ UNCHANGED <<dst, dstPos, writeRes, mUnflushedBytesWritten,
                           wFlushes, wTotal, faults, wSinceFlush>>
       ELSE IF k = -1
       THEN /\ flushOk
            /\ faults < MaxFaults
            /\ faults' = faults + 1
            /\ writeRes' = k
            /\ wRes' = WriteError("IOError")
            /\ wFlush' = "none"
            /\ UNCHANGED <<dst, dstPos, mUnflushedBytesWritten, wFlushes,
                           wTotal, wSinceFlush>>
       ELSE LET unflushed == mUnflushedBytesWritten + k
                nf == (IF k = Len(data) THEN 0 ELSE 1)
                        + (IF flushOk THEN 0 ELSE 1)
            IN  /\ faults + nf <= MaxFaults
                /\ faults' = faults + nf
                /\ dst' = IF k > 0
                          THEN FileWrite(dst, dstPos, SubSeq(data, 1, k))
                          ELSE dst
                /\ dstPos' = dstPos + k
                /\ writeRes' = k
                /\ wTotal' = wTotal + k
                /\ IF FlushDue(unflushed)
                   THEN /\ wFlushes' = wFlushes + 1
                        /\ wFlush' = IF flushOk THEN "ok" ELSE "failed"
                        /\ mUnflushedBytesWritten' =
                              UnflushedAfterFlush(unflushed, flushOk)
                        /\ wRes' = IF flushOk THEN WriteCount(k)
                                   ELSE WriteError("FlushError")
                        /\ wSinceFlush' = IF flushOk THEN 0
                                          ELSE wSinceFlush + k
                   ELSE /\ flushOk
                        /\ wFlushes' = wFlushes
                        /\ wFlush' = "none"
                        /\ mUnflushedBytesWritten' = unflushed
                        /\ wRes' = WriteCount(k)
                        /\ wSinceFlush' = wSinceFlush + k
    /\ wAllOk' = (wAllOk /\ wRes'.err = "none")
    /\ UNCHANGED <<src, srcPos, engineCore, readerVars, mWritingLimit,
                   mFlushIntervalBytes, platform>>

InitWriter ==
    /\ src = <<>>
    /\ dst \in SeqsUpTo(MaxDstLen)
    /\ blockSize_ = 1
    /\ volumeSize_ = 0
    /\ EngineAtRest
    /\ \E limit \in 0..MaxVolumeSize, interval \in 1..MaxBlockSize :
          WriterAtRest(limit, interval)
    /\ ReaderAtRest
    /\ HandlesAtRest
    /\ UbiAtRest
    /\ BufIoAtRest
    /\ ShovelAtRest

NextWriter ==
    \E data \in SeqsUpTo(MaxBlockSize), tellOk \in BOOLEAN,
       k \in -1..MaxBlockSize, flushOk \in BOOLEAN :
       LimitedWrite(data, tellOk, k, flushOk)

SpecWriter == InitWriter /\ [][NextWriter]_vars

(***************************************************************************)
(* Copy writing through a LimitedFlushingWriter of the same capacity, the  *)
(* way main.cpp lines 132-136 put them together; every primitive succeeds. *)
(***************************************************************************)
\* lines 87-102 of optimized_writer.cpp with readWriter_.Write going to
\* LimitedFlushingWriter::Write (fileio.cpp lines 129-132 and 62-87): a
\* write refused by the limit reaches Copy as a failed write
CopyWriteLimited ==
    /\ pc = "write"
    /\ LET data == SubSeq(rv, 1, readBytes)
           refused == LimitExceeded(position, readBytes)
           unflushed == mUnflushedBytesWritten + readBytes
       IN  /\ CopyWriteCore(TRUE, IF refused THEN -1 ELSE readBytes)
           /\ wCalls' = wCalls + 1
           /\ wData' = data
           /\ IF refused
              THEN /\ wRes' = WriteError("LimitExceeded")
                   /\ wFlush' = "none"
                   /\ UNCHANGED <<mUnflushedBytesWritten, wFlushes, wTotal,
                                  wSinceFlush>>
              ELSE /\ wRes' = WriteCount(readBytes)
                   /\ wTotal' = wTotal + readBytes
                   /\ IF FlushDue(unflushed)
                      THEN /\ wFlushes' = wFlushes + 1
                           /\ wFlush' = "ok"
                           /\ mUnflushedBytesWritten' =
                                 UnflushedAfterFlush(unflushed, TRUE)
                           /\ wSinceFlush' = 0
                      ELSE /\ wFlushes' = wFlushes
                           /\ wFlush' = "none"
                           /\ mUnflushedBytesWritten' = unflushed
                           /\ wSinceFlush' = wSinceFlush + readBytes
    /\ wAllOk' = (wAllOk /\ wRes'.err = "none")
    /\ UNCHANGED <<mWritingLimit, mFlushIntervalBytes, readerVars, platform>>

\* main.cpp line 132: LimitedFlushingWriter flushWriter(dstFile, volumeSize,
\* blockSize), line 135: OptimizedWriter(..., blockSize, volumeSize)
InitLimited ==
    /\ src \in SeqsUpTo(MaxSrcLen)
    /\ dst \in SeqsUpTo(MaxDstLen)
    /\ blockSize_ \in 1..MaxBlockSize
    /\ volumeSize_ \in 1..MaxVolumeSize
    /\ EngineAtRest
    /\ WriterAtRest(volumeSize_, blockSize_)
    /\ ReaderAtRest
    /\ HandlesAtRest
    /\ UbiAtRest
    /\ BufIoAtRest
    /\ ShovelAtRest

NextLimited ==
    \/ \E opt \in BOOLEAN : CopyBegin(opt)
    \/ CopyRead
    \/ CopySeek
    \/ CopyCompare
    \/ CopyWriteLimited
    \/ CopyAdvance
    \/ Rewind

SpecLimited == InitLimited /\ [][NextLimited]_vars

(***************************************************************************)
(* mender::io::Read (platformfs.cpp, lines 103-122) on the handle whose    *)
(* file is src and whose offset is srcPos, one underlying read() per step. *)
(***************************************************************************)
\* faulty variant: the loop is left after the first read that returns
ReadLoopDone_FirstRead(readRes, total, len) == TRUE

\* line 117: the loop is left at end of data or when the buffer is full
ReadLoopDone(readRes, total, len) == readRes = 0 \/ total = len

\* the counts one underlying read() of want bytes can return at offset pos:
\* 0 at the end of the file or for an empty request, else any part
ReadCounts(f, pos, want) ==
    IF want = 0 \/ pos >= Len(f) THEN {0}
    ELSE 1..Min(want, Len(f) - pos)

\* lines 103-104: entry
IoReadCall(len) ==
    /\ pc = "idle"
    /\ rdPc \in {"idle", "done"}
    /\ rdPc' = "loop"
    /\ dataLen' = len
    /\ bytesRead' = 0
    /\ rdBuf' = <<>>
    /\ rdRes' = 0
    /\ rdStart' = srcPos
    /\ rdEof' = FALSE
    /\ rdEintr' = 0
    /\ rdParts' = 0
    /\ UNCHANGED <<src, srcPos, dst, dstPos, faults, writeRes, engineCore,
                   platform, writerVars>>

\* lines 106-110: the underlying read is interrupted and issued again
IoReadInterrupted ==
    /\ rdPc = "loop"
    /\ faults < MaxFaults
    /\ faults' = faults + 1
    /\ rdEintr' = rdEintr + 1
    /\ UNCHANGED <<src, srcPos, dst, dstPos, writeRes, engineCore,
                   platform, writerVars, rdPc, dataLen, bytesRead, rdBuf, rdRes,
                   rdStart, rdEof, rdParts>>

\* lines 111-115: the underlying read fails with another error
IoReadFails ==
    /\ rdPc = "loop"
    /\ faults < MaxFaults
    /\ faults' = faults + 1
    /\ rdPc' = "done"
    /\ rdRes' = -1
    /\ UNCHANGED <<src, srcPos, dst, dstPos, writeRes, engineCore,
                   platform, writerVars, dataLen, bytesRead, rdBuf, rdStart, rdEof,
                   rdEintr, rdParts>>

\* lines 106-121: the underlying read returns readRes bytes
IoReadStep(readRes) ==
    /\ rdPc = "loop"
    /\ readRes \in ReadCounts(src, srcPos, dataLen - bytesRead)
    /\ rdBuf' = rdBuf \o SubSeq(src, srcPos + 1, srcPos + readRes)
    /\ srcPos' = srcPos + readRes
    /\ bytesRead' = bytesRead + readRes
    /\ rdEof' = (rdEof \/ (readRes = 0 /\ srcPos >= Len(src)))
    /\ rdParts' = rdParts + 1
    /\ IF ReadLoopDone(readRes, bytesRead', dataLen)
       THEN /\ rdPc' = "done"
            /\ rdRes' = bytesRead'
       ELSE /\ rdPc' = "loop"
            /\ rdRes' = rdRes
    /\ UNCHANGED <<src, dst, dstPos, faults, writeRes, engineCore,
                   platform, writerVars, dataLen, rdStart, rdEintr>>

InitRead ==
    /\ src \in SeqsUpTo(MaxSrcLen)
    /\ dst = <<>>
    /\ blockSize_ = 1
    /\ volumeSize_ = 0
    /\ EngineAtRest
    /\ WriterAtRest(0, 1)
    /\ ReaderAtRest
    /\ HandlesAtRest
    /\ UbiAtRest
    /\ BufIoAtRest
    /\ ShovelAtRest

NextRead ==
    \/ \E len \in 0..MaxBlockSize : IoReadCall(len)
    \/ IoReadInterrupted
    \/ IoReadFails
    \/ \E readRes \in 0..MaxBlockSize : IoReadStep(readRes)

SpecRead == InitRead /\ [][NextRead]_vars

(***************************************************************************)
(* Opening files and the life of the stream objects built on them          *)
(* (platformfs.cpp lines 50-77, fileio.cpp constructors and destructors).  *)
(***************************************************************************)
LowestFree == CHOOSE fd \in 1..MaxOpens :
                 /\ fdTable[fd] = 0
                 /\ \A g \in 1..(fd - 1) : fdTable[g] # 0

\* a descriptor no live stream object holds
Unheld(fd) == \A o \in Objects : objs[o].state = "live" => objs[o].fd # fd

\* mender::io::Open: open(2) returns the lowest descriptor not in use
FsOpen ==
    /\ opens < MaxOpens
    /\ opens' = opens + 1
    /\ fdTable' = [fdTable EXCEPT ![LowestFree] = opens + 1]
    /\ UNCHANGED <<objs, closeLog, ioCore, writerVars, readerVars, ubiVars,
                   bufIoVars, shovelVars>>

\* FileReader::FileReader and FileWriter::FileWriter (also the base of
\* LimitedFlushingWriter): the object keeps the descriptor
NewStream(o, fd) ==
    /\ o \in {"reader", "writer"}
    /\ objs[o].state = "absent"
    /\ fdTable[fd] # 0
    /\ Unheld(fd)
    /\ objs' = [objs EXCEPT ![o] =
                   [state |-> "live", fd |-> fd, file |-> fdTable[fd]]]
    /\ UNCHANGED <<fdTable, opens, closeLog, ioCore, writerVars, readerVars,
                   ubiVars, bufIoVars, shovelVars>>

\* fileio.cpp line 125: FileReadWriter(writer.fd_)
SeekerFd(wfd) == wfd

\* FileReadWriterSeeker::FileReadWriterSeeker(FileWriter &writer)
NewSeeker ==
    /\ objs["seeker"].state = "absent"
    /\ objs["writer"].state = "live"
    /\ objs' = [objs EXCEPT !["seeker"] =
                   [state |-> "live", fd |-> SeekerFd(objs["writer"].fd),
                    file |-> objs["writer"].file]]
    /\ UNCHANGED <<fdTable, opens, closeLog, ioCore, writerVars, readerVars,
                   ubiVars, bufIoVars, shovelVars>>

\* ~FileReader, ~FileWriter, ~FileReadWriter: close fd_ unless it is the
\* invalid descriptor.  close(2) on a descriptor that is not open returns
\* EBADF (hit = 0); otherwise it closes whatever file the number refers to now.
Destroy(o) ==
    /\ objs[o].state = "live"
    /\ objs' = [objs EXCEPT ![o].state = "destroyed"]
    /\ IF objs[o].fd # InvalidFileDescriptor
       THEN /\ closeLog' = Append(closeLog,
                  [by |-> o, fd |-> objs[o].fd, file |-> objs[o].file,
                   hit |-> fdTable[objs[o].fd]])
            /\ fdTable' = [fdTable EXCEPT ![objs[o].fd] = 0]
       ELSE UNCHANGED <<closeLog, fdTable>>
    /\ UNCHANGED <<opens, ioCore, writerVars, readerVars, ubiVars,
                   bufIoVars, shovelVars>>

InitHandles ==
    /\ src = <<>>
    /\ dst = <<>>
    /\ blockSize_ = 1
    /\ volumeSize_ = 0
    /\ EngineAtRest
    /\ WriterAtRest(0, 1)
    /\ ReaderAtRest
    /\ HandlesAtRest
    /\ UbiAtRest
    /\ BufIoAtRest
    /\ ShovelAtRest

NextHandles ==
    \/ FsOpen
    \/ \E o \in {"reader", "writer"}, fd \in 1..MaxOpens : NewStream(o, fd)
    \/ NewSeeker
    \/ \E o \in Objects : Destroy(o)

SpecHandles == InitHandles /\ [][NextHandles]_vars

(***************************************************************************)
(* mender::io::IsUBIDevice (platformfs.cpp, lines 219-230).                *)
(***************************************************************************)
\* line 229: S_ISBLK(st_mode) && major(st_rdev) == UBIMajorDevNo
IsUBINode(node) == node.kind = "blk" /\ node.major = UBIMajorDevNo

\* lines 219-230: stat the path; an error when stat fails
IsUBIDevice(path) ==
    /\ ubiCalls < MaxPaths
    /\ ubiCalls' = ubiCalls + 1
    /\ ubiPath' = path
    /\ ubiRes' = IF nodes[path].kind = "none"
                 THEN [err |-> "StatError", value |-> FALSE]
                 ELSE [err |-> "none", value |-> IsUBINode(nodes[path])]
    /\ UNCHANGED <<nodes, handleVars, ioCore, writerVars, readerVars,
                   bufIoVars, shovelVars>>

InitUbi ==
    /\ src = <<>>
    /\ dst = <<>>
    /\ blockSize_ = 1
    /\ volumeSize_ = 0
    /\ EngineAtRest
    /\ WriterAtRest(0, 1)
    /\ ReaderAtRest
    /\ HandlesAtRest
    /\ nodes \in [1..MaxPaths -> NodeKinds]
    /\ ubiCalls = 0
    /\ ubiPath = 0
    /\ ubiRes = NoAnswer
    /\ BufIoAtRest
    /\ ShovelAtRest

NextUbi == \E path \in 1..MaxPaths : IsUBIDevice(path)

SpecUbi == InitUbi /\ [][NextUbi]_vars

(***************************************************************************)
(* buf_io (main.c, lines 64-82), one io_fn call per step.  A read takes    *)
(* its bytes from src at srcPos, a write puts them into dst at dstPos.     *)
(***************************************************************************)
\* line 75: the condition of the do-while loop.  A continue statement in
\* the body (line 73) jumps to this test, not to the top of the body.
LoopAgain(done, left, len) == done > 0 /\ left > 0 /\ len > 0

\* lines 77-81: the value returned once the loop is left
BufIoResult(done, left, len) == IF done < 0 THEN done ELSE len - left

\* the counts one io_fn call asked for want bytes can return: a read gets
\* any part of what is left of the file, 0 at its end; a write puts any part
BufIoCounts(kind, want) ==
    IF kind = "read" THEN ReadCounts(src, srcPos, want) ELSE 0..want

\* lines 64-66: entry
BufIoCall(kind, len, data) ==
    /\ pc = "idle"
    /\ bioPc \in {"idle", "done"}
    /\ bioCalls < MaxCalls
    /\ bioCalls' = bioCalls + 1
    /\ Len(data) = len
    /\ bioPc' = "loop"
    /\ bioKind' = kind
    /\ bioLen' = len
    /\ bioBuf' = IF kind = "write" THEN data ELSE ZeroBytes(len)
    /\ rem' = len
    /\ n_done' = 0
    /\ bioRet' = 0
    /\ bioEintr' = 0
    /\ bioError' = FALSE
    /\ UNCHANGED <<ioCore, writerVars, readerVars, handleVars, ubiVars,
                   shovelVars>>

\* the body and the test, io_fn having returned the count n >= 0
BufIoStep(n) ==
    /\ bioPc = "loop"
    /\ n \in BufIoCounts(bioKind, rem)
    /\ LET off == bioLen - rem
       IN  IF bioKind = "read"
           THEN /\ bioBuf' = [i \in 1..bioLen |->
                                 IF i > off /\ i <= off + n
                                 THEN src[srcPos + i - off]
                                 ELSE bioBuf[i]]
                /\ srcPos' = srcPos + n
                /\ UNCHANGED <<dst, dstPos>>
           ELSE /\ dst' = IF n > 0
                          THEN FileWrite(dst, dstPos,
                                         SubSeq(bioBuf, off + 1, off + n))
                          ELSE dst
                /\ dstPos' = dstPos + n
                /\ UNCHANGED <<srcPos, bioBuf>>
    /\ n_done' = n
    /\ rem' = IF n > 0 THEN rem - n ELSE rem
    /\ IF LoopAgain(n_done', rem', bioLen)
       THEN /\ bioPc' = "loop"
            /\ bioRet' = bioRet
       ELSE /\ bioPc' = "done"
            /\ bioRet' = BufIoResult(n_done', rem', bioLen)
    /\ UNCHANGED <<src, faults, writeRes, engineCore, writerVars, readerVars,
                   handleVars, ubiVars, bioKind, bioLen, bioEintr, bioError,
                   bioCalls, shovelVars>>

\* the body and the test, io_fn having failed (-1): with EINTR line 73
\* continues, with another errno neither branch of lines 69-74 is taken
BufIoFailed(eintr) ==
    /\ bioPc = "loop"
    /\ faults < MaxFaults
    /\ faults' = faults + 1
    /\ n_done' = -1
    /\ bioEintr' = IF eintr THEN bioEintr + 1 ELSE bioEintr
    /\ bioError' = (bioError \/ ~eintr)
    /\ IF LoopAgain(n_done', rem, bioLen)
       THEN /\ bioPc' = "loop"
            /\ bioRet' = bioRet
       ELSE /\ bioPc' = "done"
            /\ bioRet' = BufIoResult(n_done', rem, bioLen)
    /\ UNCHANGED <<src, srcPos, dst, dstPos, writeRes, engineCore,
                   writerVars, readerVars, handleVars, ubiVars, bioKind,
                   bioLen, bioBuf, rem, bioCalls, shovelVars>>

InitBufIo ==
    /\ src \in SeqsUpTo(MaxSrcLen)
    /\ dst = <<>>
    /\ blockSize_ = 1
    /\ volumeSize_ = 0
    /\ EngineAtRest
    /\ WriterAtRest(0, 1)
    /\ ReaderAtRest
    /\ HandlesAtRest
    /\ UbiAtRest
    /\ BufIoAtRest
    /\ ShovelAtRest

NextBufIo ==
    \/ \E kind \in {"read", "write"}, len \in 0..MaxBlockSize,
          data \in SeqsUpTo(MaxBlockSize) : BufIoCall(kind, len, data)
    \/ \E n \in 0..MaxBlockSize : BufIoStep(n)
    \/ \E eintr \in BOOLEAN : BufIoFailed(eintr)

SpecBufIo == InitBufIo /\ [][NextBufIo]_vars

(***************************************************************************)
(* shovel_data (main.c, lines 84-148), one iteration of its loop per step. *)
(* in_fd is src at srcPos, out_fd is dst at dstPos.                        *)
(***************************************************************************)
\* line 35, 1 MiB in the source, scaled
BLOCK_SIZE == 2

\* lines 89 and 101: MIN(BLOCK_SIZE, len)
ShovelWant(l) == Min(BLOCK_SIZE, l)

\* lines 132 and 142: an fsync is issued
SyncDue(unsynced, interval) == interval # 0 /\ unsynced >= interval

\* lines 88-140 for one block.  fail names the call that fails in this
\* iteration (none, read, target, seek, write), got the bytes a failing read
\* or write moved before it failed or stopped short; fsyncOk: the fsync of
\* this iteration, when one is issued, succeeds.
ShovelIteration(fail, got, fsyncOk) ==
    /\ shPc = "loop"
    /\ shLen > 0
    /\ fail # "none" => faults < MaxFaults
    /\ LET want == ShovelWant(shLen)
           buffer == FileRead(src, srcPos, want)
           n_read == Len(buffer)
           target == FileRead(dst, dstPos, want)
           same == n_read = Len(target) /\ buffer = target
           compared == write_optimized /\ n_read > 0 /\ fail # "read"
           writes == /\ fail \notin {"read", "target", "seek"}
                     /\ n_read > 0
                     /\ ~(write_optimized /\ same)
           n_written == IF fail = "write" THEN got ELSE n_read
           unsynced == n_unsynced + n_written
           synced == writes /\ fail = "none" /\ SyncDue(unsynced, fsync_interval)
       IN  /\ got \in 0..n_read
           /\ fail \in {"none", "seek"} => got = 0
           /\ fail = "write" => (writes /\ got < n_read)
           /\ fail \in {"target", "seek"} => compared
           /\ fail = "seek" => ~same
           /\ ~synced => fsyncOk
           /\ ~fsyncOk => faults < MaxFaults
           /\ faults' = faults + (IF fail # "none" THEN 1 ELSE 0)
                               + (IF fsyncOk THEN 0 ELSE 1)
           /\ srcPos' = srcPos + (IF fail = "read" THEN got ELSE n_read)
           /\ dstPos' =
                IF ~compared /\ ~writes THEN dstPos
                ELSE IF fail \in {"target", "seek"} THEN dstPos + Len(target)
                ELSE IF writes THEN dstPos + n_written
                ELSE dstPos + Len(target)
           /\ dst' = IF writes /\ n_written > 0
                     THEN FileWrite(dst, dstPos, SubSeq(buffer, 1, n_written))
                     ELSE dst
           /\ IF fail # "none" \/ n_read = 0
              THEN /\ shPc' = "done"
                   /\ shRet' = FALSE
                   /\ shDirty' = IF writes THEN shDirty + n_written
                                 ELSE shDirty
                   /\ UNCHANGED <<shLen, n_unsynced, shStats, shFsyncs,
                                  shFsyncFailed>>
              ELSE /\ shPc' = "loop"
                   /\ shRet' = shRet
                   /\ shLen' = shLen - n_read
                   /\ shStats' =
                        IF writes
                        THEN [shStats EXCEPT
                                !.total_bytes = @ + n_read,
                                !.blocks_written = @ + 1,
                                !.bytes_written = @ + n_written]
                        ELSE [shStats EXCEPT
                                !.total_bytes = @ + n_read,
                                !.blocks_omitted = @ + 1]
                   /\ n_unsynced' =
                        IF ~writes \/ fsync_interval = 0 THEN n_unsynced
                        ELSE IF synced THEN 0
                        ELSE unsynced
                   /\ shFsyncs' = IF synced THEN shFsyncs + 1 ELSE shFsyncs
                   /\ shFsyncFailed' = (shFsyncFailed \/ ~fsyncOk)
                   /\ shDirty' =
                        IF ~writes THEN shDirty
                        ELSE IF synced /\ fsyncOk THEN 0
                        ELSE shDirty + n_written
    /\ UNCHANGED <<src, writeRes, engineCore, writerVars, readerVars,
                   handleVars, ubiVars, bufIoVars, write_optimized,
                   fsync_interval>>

\* lines 142-147: the loop is left with len = 0; the last fsync, then true
ShovelFinish(fsyncOk) ==
    /\ shPc = "loop"
    /\ shLen = 0
    /\ LET synced == SyncDue(n_unsynced, fsync_interval)
       IN  /\ ~synced => fsyncOk
           /\ ~fsyncOk => faults < MaxFaults
           /\ faults' = faults + (IF fsyncOk THEN 0 ELSE 1)
           /\ shFsyncs' = IF synced THEN shFsyncs + 1 ELSE shFsyncs
           /\ shFsyncFailed' = (shFsyncFailed \/ ~fsyncOk)
           /\ shDirty' = IF synced /\ fsyncOk THEN 0 ELSE shDirty
    /\ shPc' = "done"
    /\ shRet' = TRUE
    /\ UNCHANGED <<src, srcPos, dst, dstPos, writeRes, engineCore,
                   writerVars, readerVars, handleVars, ubiVars, bufIoVars,
                   shLen, write_optimized, fsync_interval, n_unsynced,
                   shStats>>

InitShovel ==
    /\ src \in SeqsUpTo(MaxSrcLen)
    /\ dst \in SeqsUpTo(MaxDstLen)
    /\ blockSize_ = 1
    /\ volumeSize_ = 0
    /\ EngineAtRest
    /\ WriterAtRest(0, 1)
    /\ ReaderAtRest
    /\ HandlesAtRest
    /\ UbiAtRest
    /\ BufIoAtRest
    /\ \E l \in 0..MaxSrcLen, opt \in BOOLEAN, interval \in 0..MaxBlockSize :
          ShovelEntered(l, opt, interval)

NextShovel ==
    \/ \E fail \in {"none", "read", "target", "seek", "write"},
          got \in 0..BLOCK_SIZE, fsyncOk \in BOOLEAN :
          ShovelIteration(fail, got, fsyncOk)
    \/ \E fsyncOk \in BOOLEAN : ShovelFinish(fsyncOk)

SpecShovel == InitShovel /\ [][NextShovel]_vars

TypeOK ==
    /\ pc \in {"idle", "read", "seek", "compare", "write", "advance",
               "returned"}
    /\ result \in {"none", "NoError", "TooShort", "TooBig",
                   "ProgrammingError", "IOError", "SeekError", "ZeroWrite",
                   "ShortWrite"}
    /\ srcPos \in 0..Len(src)
    /\ position \in 0..Len(src)
    /\ faults \in 0..MaxFaults
    /\ writeRes \in -2..MaxBlockSize
    /\ mUnflushedBytesWritten >= 0
    /\ wRes.err \in {"none", "TellError", "LimitExceeded", "IOError",
                     "FlushError"}
    /\ readBytes \in 0..blockSize_
    /\ pc # "idle" => Len(rv) = blockSize_
    /\ shPc \in {"idle", "loop", "done"}
    /\ shLen \in 0..MaxSrcLen
    /\ n_unsynced \in 0..MaxSrcLen
    /\ shDirty \in 0..MaxSrcLen
    /\ fsync_interval # 0 => n_unsynced < fsync_interval


(***************************************************************************)
(* Properties.                                                             *)
(***************************************************************************)
Returned == pc = "returned"
Succeeded == pc = "returned" /\ result = "NoError"

\* what the source held at the entry of the invocation
SourceLength == Len(src) - entrySrcPos

\* the source bytes of the block in progress and its range of the destination
SourceBlock == SubSeq(src, srcPos - readBytes + 1, srcPos)
DestBlock == SubSeq(dst, position + 1, position + readBytes)

\* C1: after a successful Copy (optimized or not, no I/O call failing) the
\* destination bytes at offsets [0, bytesTotal) are the bytes consumed from
\* the source, in order, whatever the initial destination content.
C1_DestinationHoldsSource ==
    Succeeded =>
        /\ Len(dst) >= statistics_.bytesTotal_
        /\ SubSeq(dst, 1, statistics_.bytesTotal_) = consumed

C1_Witness ==
    /\ Succeeded
    /\ run = 1
    /\ optimized
    /\ statistics_.blocksOmitted_ >= 1
    /\ statistics_.blocksWritten_ >= 1

\* C2: with a volume size C > 0 configured, Copy returns success only if
\* exactly C bytes were processed.
C2_SuccessOnlyWhenFull ==
    (Succeeded /\ volumeSize_ > 0) =>
        statistics_.bytesTotal_ = volumeSize_

\* C3: with a volume size C configured and a source shorter than C, Copy
\* fails with the "too short" error and bytesTotal is the source length.
C3_ShortSourceRejected ==
    (Returned /\ volumeSize_ > 0 /\ SourceLength < volumeSize_) =>
        /\ result = "TooShort"
        /\ statistics_.bytesTotal_ = SourceLength

\* C4: with a volume size C configured and a source longer than C, Copy
\* fails with the "too big" error, for every block size.
C4_LongSourceRejected ==
    (Returned /\ volumeSize_ > 0 /\ SourceLength > volumeSize_) =>
        result = "TooBig"

C4_Witness ==
    /\ Returned
    /\ result = "TooBig"
    /\ volumeSize_ > 0
    /\ SourceLength > volumeSize_
    /\ statistics_.blocksWritten_ >= 1

\* C5: with a volume size C > 0 configured and a source of exactly C bytes,
\* Copy succeeds with bytesTotal = C, whether or not the block size divides C.
C5_ExactSourceAccepted ==
    (Returned /\ volumeSize_ > 0 /\ SourceLength = volumeSize_) =>
        /\ result = "NoError"
        /\ statistics_.bytesTotal_ = volumeSize_

C7_OmittedOnlyIfEqual ==
    [][statistics_'.blocksOmitted_ > statistics_.blocksOmitted_ =>
            /\ optimized
            /\ ~wroteBlock'
            /\ dst' = dst
            /\ Len(dst) >= position + readBytes
            /\ DestBlock = SourceBlock]_vars

C7_Witness ==
    /\ pc = "advance"
    /\ skipWriting
    /\ ~wroteBlock
    /\ position > 0
    /\ readBytes < blockSize_

\* C8: in optimized mode a block whose read-back returned exactly the
\* requested count of bytes, equal to the source bytes of the block, is
\* omitted and not written, whatever happened to earlier blocks and also when
\* the block is shorter than the block size.
C8_EqualBlockOmitted ==
    (/\ pc \in {"write", "advance"}
     /\ optimized
     /\ cmpDone
     /\ Len(cmpRead) = readBytes
     /\ cmpRead = SourceBlock) =>
        skipWriting /\ ~wroteBlock

C10_PlainCopyWritesAll ==
    (Succeeded /\ ~optimized) =>
        /\ statistics_.blocksOmitted_ = 0
        /\ statistics_.blocksWritten_ = CeilDiv(SourceLength, blockSize_)
        /\ statistics_.bytesWritten_ = SourceLength

C10_Witness ==
    /\ Succeeded
    /\ ~optimized
    /\ run = 2
    /\ prevResult = "NoError"
    /\ entrySrcPos = 0
    /\ statistics_.blocksWritten_ >= 2
    /\ Len(src) % blockSize_ # 0

\* C11: after a successful Copy bytesTotal is the number of bytes consumed
\* from the source, whatever mix of blocks was written or omitted.
C11_BytesTotalIsConsumed ==
    Succeeded => statistics_.bytesTotal_ = Len(consumed)

C11_Witness ==
    /\ Succeeded
    /\ statistics_.blocksOmitted_ >= 1
    /\ statistics_.blocksWritten_ >= 1
    /\ Len(consumed) % blockSize_ # 0
    /\ statistics_.bytesTotal_ > statistics_.bytesWritten_

\* C12: onto an empty destination, with a volume size C > 0 and a source
\* longer than C, Copy stops with floor(C/B) blocks and floor(C/B)*B bytes
\* written and no block omitted; with volume size 0 all ceil(L/B) blocks and
\* L bytes are written.
C12_BlocksWrittenUnderLimit ==
    (Returned /\ entryDst = <<>>) =>
        /\ (volumeSize_ > 0 /\ SourceLength > volumeSize_) =>
              /\ statistics_.blocksWritten_ = volumeSize_ \div blockSize_
              /\ statistics_.bytesWritten_ =
                    (volumeSize_ \div blockSize_) * blockSize_
              /\ statistics_.blocksOmitted_ = 0
        /\ volumeSize_ = 0 =>
              /\ statistics_.blocksWritten_ =
                    CeilDiv(SourceLength, blockSize_)
              /\ statistics_.bytesWritten_ = SourceLength
              /\ statistics_.blocksOmitted_ = 0

C12_Witness ==
    /\ Returned
    /\ entryDst = <<>>
    /\ optimized
    /\ volumeSize_ > 0
    /\ SourceLength > volumeSize_
    /\ volumeSize_ % blockSize_ # 0
    /\ statistics_.blocksWritten_ >= 1

\* C17: whenever Copy writes a block, the destination offset at the moment
\* of the write is the logical position, in every execution, also after the
\* compare read moved the offset and also when a seek reports failure.
C17_WriteAtLogicalPosition ==
    [][pc = "write" => writeAt' = position]_vars

\* C18: a failed source read, destination seek (the one before the compare
\* and the one before the write) or destination write makes Copy return an
\* error at once, with no further destination call in that invocation.
C18_FaultEndsInvocation ==
    hardFault =>
        /\ pc = "returned"
        /\ result \notin {"none", "NoError"}
        /\ ioAfterFault = 0

\* C19: a write reporting 0 bytes ends the invocation with the "Zero write"
\* error, a write reporting a count strictly between 0 and the requested one
\* with the "Short write" error, both distinct from a propagated I/O error;
\* blocksWritten, bytesWritten, bytesTotal and the logical position are not
\* advanced for that block.
C19_ShortAndZeroWrite ==
    [][pc = "write" =>
          /\ writeRes' = 0 => (pc' = "returned" /\ result' = "ZeroWrite")
          /\ (writeRes' > 0 /\ writeRes' < readBytes) =>
                (pc' = "returned" /\ result' = "ShortWrite")
          /\ writeRes' = -1 => (pc' = "returned" /\ result' = "IOError")
          /\ writeRes' \in -1..(readBytes - 1) =>
                (statistics_' = statistics_ /\ position' = position)]_vars

C19_Witness ==
    /\ Returned
    /\ result = "ShortWrite"
    /\ writeRes > 0
    /\ writeRes < readBytes
    /\ statistics_.blocksWritten_ >= 1
    /\ statistics_.bytesTotal_ = position

\* C13: LimitedFlushingWriter::Write with limit > 0 and file offset + data
\* length > limit returns an error and neither writes nor flushes: content,
\* size and offset of the file and the unflushed counter are unchanged.
C13_WritePastLimitRejected ==
    [][(/\ wCalls' = wCalls + 1
        /\ mWritingLimit > 0
        /\ dstPos + Len(wData') > mWritingLimit) =>
            /\ wRes'.err # "none"
            /\ dst' = dst
            /\ dstPos' = dstPos
            /\ mUnflushedBytesWritten' = mUnflushedBytesWritten
            /\ wFlushes' = wFlushes]_vars

C13_Witness ==
    /\ wCalls = 2
    /\ wRes.err = "LimitExceeded"
    /\ dstPos > 0
    /\ dstPos <= mWritingLimit
    /\ Len(wData) <= mWritingLimit
    /\ wTotal > 0

\* C14: LimitedFlushingWriter::Write succeeds and returns the full data
\* length whenever the underlying write (of the whole data) and the flush
\* succeed and limit = 0 or file offset + data length <= limit, also when
\* the write ends exactly at the limit.
C14_WriteWithinLimitAccepted ==
    [][(/\ wCalls' = wCalls + 1
        /\ faults' = faults
        /\ mWritingLimit = 0 \/ dstPos + Len(wData') <= mWritingLimit) =>
            /\ wRes' = [err |-> "none", n |-> Len(wData')]
            /\ dstPos' = dstPos + Len(wData')
            /\ Len(wData') > 0 => dst' = FileWrite(dst, dstPos, wData')]_vars

C14_Witness ==
    /\ wCalls >= 1
    /\ wRes.err = "none"
    /\ wRes.n = Len(wData)
    /\ Len(wData) > 0
    /\ mWritingLimit > 0
    /\ dstPos = mWritingLimit

\* C15: when the underlying write succeeds but the flush it triggers fails,
\* Write returns an error although the data was written and the offset
\* advanced; the unflushed counter is not reduced by that call.
C15_FlushFailureReported ==
    [][(wCalls' = wCalls + 1 /\ wFlush' = "failed") =>
            /\ wRes'.err = "FlushError"
            /\ writeRes' >= 0
            /\ dstPos' = dstPos + writeRes'
            /\ writeRes' > 0 =>
                  dst' = FileWrite(dst, dstPos, SubSeq(wData', 1, writeRes'))
            /\ mUnflushedBytesWritten' = mUnflushedBytesWritten + writeRes'
            /\ mUnflushedBytesWritten' >= mUnflushedBytesWritten]_vars

C15_Witness ==
    /\ wFlush = "failed"
    /\ wRes.err = "FlushError"
    /\ writeRes > 0
    /\ mUnflushedBytesWritten >= mFlushIntervalBytes
    /\ dstPos > 0

\* C16: for any sequence of successful writes of arbitrary sizes, after each
\* write the unflushed counter is (total bytes written so far) mod N, N the
\* flush interval, and therefore below N.
C16_CounterIsTotalModInterval ==
    (wCalls >= 1 /\ wAllOk) =>
        /\ mUnflushedBytesWritten = wTotal % mFlushIntervalBytes
        /\ mUnflushedBytesWritten < mFlushIntervalBytes

\* C20: mender::io::Read(handle, buf, n) returns a count below n only when
\* the end of the data was reached; interrupted reads are issued again
\* without losing or counting twice the bytes already obtained, partial
\* reads are accumulated and the count never exceeds n.
C20_ReadFillsOrReachesEnd ==
    (rdPc = "done" /\ rdRes >= 0) =>
        /\ rdRes <= dataLen
        /\ rdRes < dataLen => (rdEof /\ srcPos = Len(src))
        /\ srcPos = rdStart + rdRes
        /\ rdBuf = SubSeq(src, rdStart + 1, rdStart + rdRes)

C20_Witness ==
    /\ rdPc = "done"
    /\ rdRes = dataLen
    /\ dataLen >= 2
    /\ rdEintr >= 1
    /\ rdParts >= 2
    /\ ~rdEof

\* the block before the one at the loop head went through its compare read
\* (optimized mode) and was written or omitted
PriorBlockDone == (optimized => cmpDone) /\ (wroteBlock \/ skipWriting)

\* C22: within one invocation the blocks are processed strictly in order:
\* the source read of a block is issued only when the block before it was
\* compared and written or omitted, and the destination offset of every
\* compare read and of every write is larger than the offsets of the compare
\* reads and writes of all earlier blocks.
C22_BlocksInOrder ==
    [][/\ (pc = "read" /\ iterations > 0) => PriorBlockDone
       /\ pc = "compare" => cmpAt' > prevIoAt
       /\ pc = "write" => writeAt' > prevIoAt]_vars

\* the statistics agree with what this invocation did since its entry
LedgerAgrees ==
    /\ statistics_.bytesTotal_ = position
    /\ statistics_.blocksWritten_ + statistics_.blocksOmitted_ = iterations
    /\ statistics_.bytesWritten_ = bytesOut
    /\ statistics_.bytesTotal_ = bytesOut + omittedBytes
    /\ statistics_.bytesTotal_ <= Len(src) - entrySrcPos
    /\ wroteOffsets \subseteq 0..(statistics_.bytesTotal_ - 1)

\* C23: every invocation starts from logical position 0 with the statistics
\* zero, and at its return the statistics are those of the blocks this
\* invocation processed, counted from offset 0 of the destination, whatever an
\* earlier invocation left in the statistics and wherever the destination
\* offset stood at entry.
C23_StatisticsOfThisInvocation ==
    [][/\ run' = run + 1 =>
             (position' = 0 /\ statistics_' = ZeroStatistics)
       /\ pc' = "returned" => LedgerAgrees']_vars

C23_Witness ==
    /\ Returned
    /\ run = 2
    /\ prevResult = "TooBig"
    /\ entryDstPos > 0
    /\ entrySrcPos > 0
    /\ statistics_.blocksWritten_ >= 1

\* C25: with volume size 0 Copy never returns "too short" or "too big"; when
\* no source read, seek or write fails it returns success, and success means
\* the source was read to its end and all of it was processed, also for the
\* empty source.
C25_UnboundedNeverMismatch ==
    (Returned /\ volumeSize_ = 0) =>
        /\ result \notin {"TooShort", "TooBig"}
        /\ ~hardFault => result = "NoError"
        /\ result = "NoError" =>
              /\ Len(consumed) = SourceLength
              /\ statistics_.bytesTotal_ = SourceLength

C25_Witness ==
    /\ Succeeded
    /\ volumeSize_ = 0
    /\ SourceLength > blockSize_
    /\ SourceLength % blockSize_ # 0
    /\ iterations >= 2

C27_PlainCopyNeverReadsBack ==
    ~optimized => (pc # "compare" /\ ~cmpDone /\ cmpAt = -1)

C27_Witness ==
    /\ Succeeded
    /\ ~optimized
    /\ iterations >= 2
    /\ Len(entryDst) >= blockSize_
    /\ statistics_.blocksWritten_ = iterations

\* C28: at every return of Copy bytesWritten is the number of bytes the
\* destination accepted in that invocation, also after a short write.
C28_BytesWrittenIsPhysical ==
    Returned => statistics_.bytesWritten_ = bytesOut

\* C29: the destination changes only inside the ranges of the blocks
\* written: every other byte, and the length beyond them, is as at entry; and
\* when Copy fails, the blocks written in earlier iterations hold the source
\* bytes.
C29_OnlyWrittenBlocksChange ==
    pc # "idle" =>
        /\ \A i \in 1..Len(dst) :
              (i - 1) \notin wroteOffsets =>
                  (i <= Len(entryDst) /\ dst[i] = entryDst[i])
        /\ Len(dst) >= Len(entryDst)
        /\ (Returned /\ result # "NoError") =>
              \A i \in 1..position :
                  (i - 1) \in wroteOffsets =>
                      (i <= Len(dst) /\ dst[i] = consumed[i])

\* C30: at the head of the loop and at every return bytesTotal is the
\* logical position, bytesTotal = bytesWritten + the sizes of the omitted
\* blocks, blocksWritten + blocksOmitted is the number of completed
\* iterations and bytesWritten <= bytesTotal.
C30_StatisticsConsistent ==
    pc \in {"read", "returned"} =>
        /\ statistics_.bytesTotal_ = position
        /\ statistics_.bytesTotal_ = statistics_.bytesWritten_ + omittedBytes
        /\ statistics_.blocksWritten_ + statistics_.blocksOmitted_ =
              iterations
        /\ statistics_.bytesWritten_ <= statistics_.bytesTotal_

C30_Witness ==
    /\ Returned
    /\ optimized
    /\ result \in {"ZeroWrite", "IOError"}
    /\ wroteBlock
    /\ statistics_.blocksOmitted_ >= 1
    /\ statistics_.blocksWritten_ >= 1

\* the close calls the destructors of the writer and of its seeker issued
PairCloses == {i \in DOMAIN closeLog : closeLog[i].by \in {"writer", "seeker"}}

\* C21: every open file is closed exactly once: a destructor's close reaches
\* the file its object was built on, and when a writer and the seeker
\* wrapping it, holding the same handle, are both destroyed, exactly one
\* close was issued on that handle.
C21_HandleClosedOnce ==
    /\ \A i \in DOMAIN closeLog : closeLog[i].hit = closeLog[i].file
    /\ (objs["writer"].state = "destroyed"
            /\ objs["seeker"].state = "destroyed") =>
          Cardinality(PairCloses) = 1

\* C24: IsUBIDevice(path) returns true exactly when the path is a character
\* or block device node with the UBI major number, and false for every other
\* existing path.
C24_UbiIffDeviceWithMajor ==
    (ubiCalls >= 1 /\ nodes[ubiPath].kind # "none") =>
        /\ ubiRes.err = "none"
        /\ ubiRes.value =
              (/\ nodes[ubiPath].kind \in {"chr", "blk"}
               /\ nodes[ubiPath].major = UBIMajorDevNo)

\* C31: with the engine and the LimitedFlushingWriter it writes through set
\* to the same capacity C > 0 and every seek succeeding, no write of the
\* engine is refused by the writer's limit: every write is issued at the
\* logical position and ends at or before C.
C31_LimitNeverHit ==
    [][pc = "write" =>
          /\ mWritingLimit = volumeSize_
          /\ wRes'.err # "LimitExceeded"
          /\ writeAt' = position
          /\ writeAt' + readBytes <= mWritingLimit]_vars

C31_Witness ==
    /\ Returned
    /\ result = "TooBig"
    /\ wCalls >= 2
    /\ wAllOk
    /\ mWritingLimit = volumeSize_
    /\ maxWriteEnd = mWritingLimit

\* C32: after every LimitedFlushingWriter::Write that returns success, the
\* bytes written through the writer since its last successful flush (since
\* its construction when it has not flushed yet) are fewer than the flush
\* interval, whatever the sizes of the writes.
C32_UnflushedBelowInterval ==
    (wCalls >= 1 /\ wRes.err = "none") =>
        /\ wSinceFlush < mFlushIntervalBytes
        /\ wSinceFlush <= mUnflushedBytesWritten

C32_Witness ==
    /\ wCalls = 2
    /\ wRes.err = "none"
    /\ wFlush = "ok"
    /\ wRes.n > mFlushIntervalBytes
    /\ mUnflushedBytesWritten >= mFlushIntervalBytes
    /\ wSinceFlush = 0

\* C34: buf_io issues io_fn again after a call that failed with EINTR and
\* goes on until len bytes are transferred, the end of the data is reached
\* or another error occurs: a negative result is never due to EINTR alone.
C34_EintrIsRetried ==
    (bioPc = "done" /\ bioRet < 0) => bioError

\* C35: when shovel_data returns true with fsync_interval # 0 and every
\* fsync call succeeded, every byte it wrote to the target was followed by
\* an fsync before the return.
C35_NothingUnsyncedAtReturn ==
    (/\ shPc = "done"
     /\ shRet
     /\ fsync_interval # 0
     /\ ~shFsyncFailed) => shDirty = 0

InProgress == pc \in {"read", "seek", "compare", "write", "advance"}

\* C33: for every finite source and block size >= 1, Copy eventually
\* returns (success or error) when every primitive call returns and failures
\* are finitely many: an iteration that does not return consumes at least
\* one source byte, and an invocation in progress leads to a return.
C33_CopyReturns ==
    /\ [][(pc = "read" /\ pc' # "returned") => srcPos' >= srcPos + 1]_vars
    /\ InProgress ~> Returned

C33_Witness ==
    /\ Returned
    /\ iterations >= 2
    /\ Len(consumed) = SourceLength
    /\ SourceLength >= 2

=============================================================================
